---- MODULE Spec2Model ----
(***************************************************************************)
(* Model of scripts/webhook.py: the Flask handler `response` behind        *)
(* POST /trigger-benchmark.  A request is parsed, its `ref` compared with  *)
(* refs/heads/main, and for the main branch three blocking subprocesses    *)
(* are run in turn: git fetch --all, git checkout <after>, and a shell     *)
(* command line that builds and runs the benchmark.                        *)
(*                                                                         *)
(* Strings that are interpreted by a shell are sequences of atoms: an atom *)
(* is either a chunk of the fixed template (which holds no blank) or one   *)
(* character of the payload's `after`.  The only shell metacharacter of    *)
(* the alphabet is the blank " ".                                          *)
(***************************************************************************)
EXTENDS Integers, Sequences, FiniteSets, TLC

\* Number of requests the server may have in flight at once.
NumWorkers == 2

Workers == 1..NumWorkers

MainRef == "refs/heads/main"

\* Values of the `ref` key seen in payloads.
Refs == {MainRef, "refs/heads/develop"}

\* Values of the `after` key seen in payloads: two plain commit ids and one
\* string that holds a blank.
Afters == {<<"a">>, <<"b">>, <<"a", " ", "b">>}

\* The JSON objects request.get_json() may return: either key may be missing.
Payloads ==
    {[ref |-> r, after |-> a] : r \in Refs, a \in Afters}
    \cup {[ref |-> r] : r \in Refs}
    \cup {[after |-> a] : a \in Afters}
    \cup {[other |-> "x"]}

Has(d, k) == k \in DOMAIN d

IsMain(d) == Has(d, "ref") /\ d.ref = MainRef

\* ---------------------------------------------------------------------------
\* Subprocess outcomes (subprocess.run(..., check=True))
\* ---------------------------------------------------------------------------
Ok == [kind |-> "ok"]

\* Non-zero exit statuses a child may return.
FailCodes == {1}

Outcomes ==
    {Ok} \cup {[kind |-> "exit", rc |-> c] : c \in FailCodes}
         \cup {[kind |-> "oserror"]}

\* The exception subprocess.run raises for outcome o of command cmd.
Raised(o, cmd) ==
    IF o.kind = "exit"
    THEN [type |-> "CalledProcessError", returncode |-> o.rc, cmd |-> cmd]
    ELSE [type |-> "FileNotFoundError", errno |-> 2]

\* Python's repr of the argument list or command string, as atoms.
Quoted(cmd) == <<"'">> \o cmd \o <<"'">>

\* str(e), for the exit statuses of FailCodes (all positive).
Str(e) ==
    IF e.type = "CalledProcessError"
    THEN <<"Command ">> \o Quoted(e.cmd) \o
         <<" returned non-zero exit status ", ToString(e.returncode), ".">>
    ELSE <<"[Errno ", ToString(e.errno), "] No such file or directory">>

\* ---------------------------------------------------------------------------
\* Command lines
\* ---------------------------------------------------------------------------
FetchArgv == << <<"git">>, <<"fetch">>, <<"--all">> >>

CheckoutArgv(after) == << <<"git">>, <<"checkout">>, after >>

\* The f-string of line 20.
BuildCommand(after) ==
    <<"/home/ubuntu/zig-linux-x86_64-0.13.0/zig", " ", "build", " ",
      "-Doptimize=ReleaseSafe", " ", "benchmark", " ", "--", " ",
      "gossip", " ", "--telemetry=">> \o after

\* Word splitting done by the shell that shell=True hands the string to:
\* blanks separate words, empty words are dropped.
RECURSIVE SplitFrom(_, _, _)
SplitFrom(s, word, acc) ==
    IF s = <<>>
    THEN IF word = <<>> THEN acc ELSE Append(acc, word)
    ELSE IF Head(s) = " "
         THEN SplitFrom(Tail(s), <<>>,
                        IF word = <<>> THEN acc ELSE Append(acc, word))
         ELSE SplitFrom(Tail(s), Append(word, Head(s)), acc)

ShellSplit(s) == SplitFrom(s, <<>>, <<>>)

\* A launched subprocess: the program's name and the argument vector the
\* program receives.
FetchCall == [step |-> "fetch", argv |-> FetchArgv]

CheckoutCall(after) == [step |-> "checkout", argv |-> CheckoutArgv(after)]

BuildCall(after) ==
    [step |-> "build", argv |-> ShellSplit(BuildCommand(after)),
     cmd |-> BuildCommand(after)]

\* ---------------------------------------------------------------------------
\* Responses
\* ---------------------------------------------------------------------------
NoResp == [pending |-> TRUE]

\* Response(status=200)
Response200 == [status |-> 200, body |-> ""]

\* Variant of Response500 whose body lacks the error text.
Response500MessageOnly(e) ==
    [status |-> 500, json |-> [message |-> "An error occurred"]]

\* jsonify({...}), 500
Response500(e) ==
    [status |-> 500,
     json |-> [message |-> "An error occurred", error |-> Str(e)]]

\* An exception that leaves the handler uncaught.
Fault(e) == [fault |-> e]

KeyError(k) == [type |-> "KeyError", key |-> k]

\* ---------------------------------------------------------------------------
\* State
\* ---------------------------------------------------------------------------
VARIABLES
    pc,      \* pc[w]: where worker w's request stands
    data,    \* data[w]: the payload of worker w's request
    calls,   \* calls[w]: the subprocesses the request has launched, in order
    outs,    \* outs[w]: the outcomes of those that have returned, in order
    resp,    \* resp[w]: what the request ended with
    tree     \* the commit the shared working tree is checked out at

vars == <<pc, data, calls, outs, resp, tree>>

NoData == [idle |-> TRUE]

InitialTree == <<"0">>

Init ==
    /\ pc = [w \in Workers |-> "idle"]
    /\ data = [w \in Workers |-> NoData]
    /\ calls = [w \in Workers |-> <<>>]
    /\ outs = [w \in Workers |-> <<>>]
    /\ resp = [w \in Workers |-> NoResp]
    /\ tree = InitialTree

\* The handler ends: w's request has its outcome r.
Finish(w, r) ==
    /\ pc' = [pc EXCEPT ![w] = "done"]
    /\ resp' = [resp EXCEPT ![w] = r]

\* subprocess.run starts a child and blocks until it returns.
Launch(w, call, at) ==
    /\ calls' = [calls EXCEPT ![w] = Append(@, call)]
    /\ pc' = [pc EXCEPT ![w] = at]
    /\ resp' = resp

\* Flask hands a request to the handler (threaded dispatch).
Accept(w) ==
    /\ pc[w] = "idle"
    /\ \E d \in Payloads : data' = [data EXCEPT ![w] = d]
    /\ pc' = [pc EXCEPT ![w] = "entry"]
    /\ calls' = [calls EXCEPT ![w] = <<>>]
    /\ outs' = [outs EXCEPT ![w] = <<>>]
    /\ resp' = [resp EXCEPT ![w] = NoResp]
    /\ UNCHANGED tree

\* Variant of AcceptSync that takes the next request as soon as the one in
\* progress has launched its build.
AcceptEarly(w) ==
    /\ \A v \in Workers : pc[v] \in {"idle", "build"}
    /\ Accept(w)

\* Flask hands a request to the handler only when no other is being handled.
AcceptSync(w) ==
    /\ \A v \in Workers : pc[v] = "idle"
    /\ Accept(w)

\* Variant of Enter that fetches for every branch.
EnterAnyRef(w) ==
    /\ pc[w] = "entry"
    /\ IF ~Has(data[w], "ref")
       THEN Finish(w, Fault(KeyError("ref"))) /\ calls' = calls
       ELSE Launch(w, FetchCall, "fetch")
    /\ UNCHANGED <<data, outs, tree>>

\* Variant of Enter that waits until no other request is between its fetch
\* and its response.
EnterLocked(w) ==
    /\ pc[w] = "entry"
    /\ \A v \in Workers \ {w} : pc[v] \notin {"fetch", "checkout", "build"}
    /\ IF ~Has(data[w], "ref")
       THEN Finish(w, Fault(KeyError("ref"))) /\ calls' = calls
       ELSE IF data[w].ref = MainRef
            THEN Launch(w, FetchCall, "fetch")
            ELSE Finish(w, Response200) /\ calls' = calls
    /\ UNCHANGED <<data, outs, tree>>

\* Lines 11-14: parse, compare the ref, start git fetch.
Enter(w) ==
    /\ pc[w] = "entry"
    /\ IF ~Has(data[w], "ref")
       THEN Finish(w, Fault(KeyError("ref"))) /\ calls' = calls
       ELSE IF data[w].ref = MainRef
            THEN Launch(w, FetchCall, "fetch")
            ELSE Finish(w, Response200) /\ calls' = calls
    /\ UNCHANGED <<data, outs, tree>>

\* Variant of FetchReturns with the fetch inside the try block.
FetchReturnsCaught(w) ==
    /\ pc[w] = "fetch"
    /\ \E o \in Outcomes :
        /\ outs' = [outs EXCEPT ![w] = Append(@, o)]
        /\ IF o # Ok
           THEN Finish(w, Response500(Raised(o, FetchArgv))) /\ calls' = calls
           ELSE IF ~Has(data[w], "after")
                THEN Finish(w, Fault(KeyError("after"))) /\ calls' = calls
                ELSE Launch(w, CheckoutCall(data[w].after), "checkout")
    /\ UNCHANGED <<data, tree>>

\* Lines 14-16: git fetch returns; start git checkout.
FetchReturns(w) ==
    /\ pc[w] = "fetch"
    /\ \E o \in Outcomes :
        /\ outs' = [outs EXCEPT ![w] = Append(@, o)]
        /\ IF o # Ok
           THEN Finish(w, Fault(Raised(o, FetchArgv))) /\ calls' = calls
           ELSE IF ~Has(data[w], "after")
                THEN Finish(w, Fault(KeyError("after"))) /\ calls' = calls
                ELSE Launch(w, CheckoutCall(data[w].after), "checkout")
    /\ UNCHANGED <<data, tree>>

\* Variant of CheckoutReturns that skips the build when the tree was already
\* at the commit.
CheckoutReturnsSkipBuilt(w) ==
    /\ pc[w] = "checkout"
    /\ \E o \in Outcomes :
        /\ outs' = [outs EXCEPT ![w] = Append(@, o)]
        /\ IF o # Ok
           THEN /\ Finish(w, Fault(Raised(o, CheckoutArgv(data[w].after))))
                /\ calls' = calls
                /\ tree' = tree
           ELSE IF tree = data[w].after
                THEN /\ Finish(w, Response200)
                     /\ calls' = calls
                     /\ tree' = tree
                ELSE /\ Launch(w, BuildCall(data[w].after), "build")
                     /\ tree' = data[w].after
    /\ UNCHANGED data

\* Variant of CheckoutReturns that ignores the exit status (no check=True).
CheckoutReturnsUnchecked(w) ==
    /\ pc[w] = "checkout"
    /\ \E o \in Outcomes :
        /\ outs' = [outs EXCEPT ![w] = Append(@, o)]
        /\ IF o = [kind |-> "oserror"]
           THEN /\ Finish(w, Fault(Raised(o, CheckoutArgv(data[w].after))))
                /\ calls' = calls
                /\ tree' = tree
           ELSE /\ Launch(w, BuildCall(data[w].after), "build")
                /\ tree' = IF o = Ok THEN data[w].after ELSE tree
    /\ UNCHANGED data

\* Lines 16-20: git checkout returns; start the build.
CheckoutReturns(w) ==
    /\ pc[w] = "checkout"
    /\ \E o \in Outcomes :
        /\ outs' = [outs EXCEPT ![w] = Append(@, o)]
        /\ IF o # Ok
           THEN /\ Finish(w, Fault(Raised(o, CheckoutArgv(data[w].after))))
                /\ calls' = calls
                /\ tree' = tree
           ELSE /\ Launch(w, BuildCall(data[w].after), "build")
                /\ tree' = data[w].after
    /\ UNCHANGED data

\* Variant of BuildReturns whose except clause falls through to line 24.
BuildReturnsSwallow(w) ==
    /\ pc[w] = "build"
    /\ \E o \in Outcomes :
        /\ outs' = [outs EXCEPT ![w] = Append(@, o)]
        /\ Finish(w, Response200)
    /\ UNCHANGED <<data, calls, tree>>

\* Lines 20-24: the build returns.
BuildReturns(w) ==
    /\ pc[w] = "build"
    /\ \E o \in Outcomes :
        /\ outs' = [outs EXCEPT ![w] = Append(@, o)]
        /\ IF o # Ok
           THEN Finish(w, Response500(Raised(o, BuildCommand(data[w].after))))
           ELSE Finish(w, Response200)
    /\ UNCHANGED <<data, calls, tree>>

\* The response is sent and the request's data discarded.
Release(w) ==
    /\ pc[w] = "done"
    /\ pc' = [pc EXCEPT ![w] = "idle"]
    /\ data' = [data EXCEPT ![w] = NoData]
    /\ calls' = [calls EXCEPT ![w] = <<>>]
    /\ outs' = [outs EXCEPT ![w] = <<>>]
    /\ resp' = [resp EXCEPT ![w] = NoResp]
    /\ UNCHANGED tree

Step(w) ==
    \/ Enter(w)
    \/ FetchReturns(w)
    \/ CheckoutReturns(w)
    \/ BuildReturns(w)
    \/ Release(w)

Next == \E w \in Workers : Accept(w) \/ Step(w)

NextSync == \E w \in Workers : AcceptSync(w) \/ Step(w)

\* Requests dispatched to threads (app.run's default in Flask >= 1.0).
Spec == Init /\ [][Next]_vars

\* Requests handled one at a time (app.run with threaded=False).
SpecSync == Init /\ [][NextSync]_vars

\* Every subprocess terminates and the handler's thread keeps running.
SpecFair == Init /\ [][Next]_vars /\ \A w \in Workers : WF_vars(Step(w))

\* ---------------------------------------------------------------------------
\* Properties
\* ---------------------------------------------------------------------------
Ended(w) == pc[w] = "done"

HasBoth(d) == Has(d, "ref") /\ Has(d, "after")

Steps(w) == [i \in 1..Len(calls[w]) |-> calls[w][i].step]

\* The values of the --telemetry= arguments of an argument vector.
TelemetryArgs(argv) ==
    SelectSeq(argv, LAMBDA word : Head(word) = "--telemetry=")

\* C1: a request whose ref is present and is not refs/heads/main ends with
\* 200 and an empty body and has launched no subprocess, whether or not the
\* payload has an `after` and whatever it is.
C1_OtherBranchIgnored ==
    \A w \in Workers :
        (pc[w] # "idle" /\ Has(data[w], "ref") /\ data[w].ref # MainRef)
            => /\ calls[w] = <<>>
               /\ pc[w] = "done" => resp[w] = [status |-> 200, body |-> ""]

C1_Witness ==
    \E w \in Workers :
        /\ Ended(w)
        /\ data[w] = [ref |-> "refs/heads/develop", after |-> <<"a">>]
        /\ resp[w] = Response200
        /\ calls[w] = <<>>

\* C2: a main-branch request with an `after` whose fetch, checkout and build
\* all succeeded ends with 200, having launched fetch, checkout and build
\* once each in that order, the checkout argument and the build's
\* --telemetry= argument both being the payload's `after`.
C2_AfterPassedThrough ==
    \A w \in Workers :
        (Ended(w) /\ IsMain(data[w]) /\ Has(data[w], "after")
                  /\ outs[w] = <<Ok, Ok, Ok>>)
            => /\ resp[w].status = 200
               /\ Steps(w) = <<"fetch", "checkout", "build">>
               /\ calls[w][2].argv = << <<"git">>, <<"checkout">>, data[w].after >>
               /\ TelemetryArgs(calls[w][3].argv)
                      = << <<"--telemetry=">> \o data[w].after >>

\* C3: a main-branch request whose fetch and checkout succeeded and whose
\* build failed ends with 500 and a JSON body of exactly the two fields
\* message = "An error occurred" and error = str of the failure.
C3_BuildFailureReported ==
    \A w \in Workers :
        (Ended(w) /\ IsMain(data[w]) /\ Len(outs[w]) = 3
                  /\ outs[w][1] = Ok /\ outs[w][2] = Ok /\ outs[w][3] # Ok)
            => /\ DOMAIN resp[w] = {"status", "json"}
               /\ resp[w].status = 500
               /\ DOMAIN resp[w].json = {"message", "error"}
               /\ resp[w].json.message = "An error occurred"
               /\ resp[w].json.error
                      = Str(Raised(outs[w][3], BuildCommand(data[w].after)))

C3_Witness ==
    \E w \in Workers :
        /\ Ended(w)
        /\ data[w] = [ref |-> MainRef, after |-> <<"a">>]
        /\ outs[w] = <<Ok, Ok, [kind |-> "exit", rc |-> 1]>>
        /\ resp[w].status = 500

\* C4: a main-branch request whose fetch or checkout failed ends in an
\* unhandled fault, with neither the 200 nor the JSON 500; the JSON 500 is
\* produced only for a failure of the build.
C4_OnlyBuildCaught ==
    \A w \in Workers :
        Ended(w) =>
            /\ (IsMain(data[w]) /\ Len(outs[w]) \in {1, 2}
                    /\ outs[w][Len(outs[w])] # Ok)
                  => DOMAIN resp[w] = {"fault"}
            /\ (Has(resp[w], "json"))
                  => (Len(outs[w]) = 3 /\ outs[w][3] # Ok)

C4_Witness ==
    \E w \in Workers :
        /\ Ended(w)
        /\ IsMain(data[w])
        /\ outs[w] = <<Ok, [kind |-> "exit", rc |-> 1]>>
        /\ Has(resp[w], "fault")
        /\ resp[w].fault.type = "CalledProcessError"

\* Two outcome sequences come from the same behaviour of the external steps:
\* they agree on every step both have.
SameOutcomes(a, b) ==
    \A i \in 1..Len(a) : i <= Len(b) => a[i] = b[i]

\* C5: two requests that end with the same payload, the external steps
\* having behaved the same for both, have launched the same subprocesses
\* with the same arguments and end with the same response, whichever ran
\* first and whatever happened to the working tree in between.
C5_NoHiddenState ==
    \A w, v \in Workers :
        (Ended(w) /\ Ended(v) /\ data[w] = data[v]
                  /\ SameOutcomes(outs[w], outs[v]))
            => /\ calls[w] = calls[v]
               /\ resp[w] = resp[v]

\* The same main-branch payload handled twice, all steps succeeding.
C5_Witness ==
    \E w, v \in Workers :
        /\ w # v
        /\ Ended(w) /\ Ended(v)
        /\ data[w] = [ref |-> MainRef, after |-> <<"b">>]
        /\ data[v] = data[w]
        /\ outs[w] = <<Ok, Ok, Ok>>
        /\ outs[v] = outs[w]

\* C6: a request that has launched a subprocess has a payload with both
\* `ref` and `after`.
C6_BothFieldsForAction ==
    \A w \in Workers : calls[w] # <<>> => HasBoth(data[w])

\* C7: nothing orders the requests on the shared working tree: a request can
\* always be accepted by an idle worker and every step of a request can be
\* taken whatever the other requests are doing.
C7_NoOrdering ==
    \A w \in Workers :
        /\ pc[w] = "idle" => ENABLED Accept(w)
        /\ pc[w] = "entry" => ENABLED Enter(w)
        /\ pc[w] = "fetch" => ENABLED FetchReturns(w)
        /\ pc[w] = "checkout" => ENABLED CheckoutReturns(w)
        /\ pc[w] = "build" => ENABLED BuildReturns(w)

\* One request's build runs on the tree the other request checked out.
C7_Witness ==
    \E w, v \in Workers :
        /\ w # v
        /\ pc[w] = "build" /\ pc[v] = "build"
        /\ data[w].after = <<"a">> /\ data[v].after = <<"b">>
        /\ tree = data[v].after

\* C8: with requests handled one at a time, a running build has the tree at
\* its own request's `after`, and no two requests are in progress at once.
C8_Serial ==
    /\ \A w \in Workers : pc[w] = "build" => tree = data[w].after
    /\ \A w, v \in Workers : (pc[w] # "idle" /\ pc[v] # "idle") => w = v

C8_Witness ==
    \E w \in Workers :
        /\ pc[w] = "build"
        /\ data[w] = [ref |-> MainRef, after |-> <<"b">>]
        /\ tree = <<"b">>
        /\ \A v \in Workers \ {w} : pc[v] = "idle"

\* C9: the subprocesses of one request are launched in the order fetch,
\* checkout, build, each only after the one before it returned successfully,
\* and none is launched after one has failed.
C9_StepOrder ==
    \A w \in Workers :
        /\ Len(calls[w]) <= 3
        /\ Steps(w) = SubSeq(<<"fetch", "checkout", "build">>, 1, Len(calls[w]))
        /\ Len(outs[w]) <= Len(calls[w])
        /\ Len(calls[w]) <= Len(outs[w]) + 1
        /\ \A i \in 1..Len(outs[w]) : outs[w][i] # Ok => Len(calls[w]) = i
        /\ \A i \in 2..Len(calls[w]) : outs[w][i - 1] = Ok

C9_Witness ==
    \E w \in Workers :
        /\ Ended(w)
        /\ Steps(w) = <<"fetch", "checkout">>
        /\ outs[w] = <<Ok, [kind |-> "oserror"]>>

IsOutcome(r) ==
    \/ r = [status |-> 200, body |-> ""]
    \/ /\ DOMAIN r = {"status", "json"}
       /\ r.status = 500
       /\ DOMAIN r.json = {"message", "error"}
    \/ DOMAIN r = {"fault"}

\* C10: every accepted request ends (a worker is again and again either idle
\* or at the end of its request, and leaves a request only through its end),
\* with one of 200 and an empty body, the JSON 500 or an unhandled fault, and
\* a main-branch request ends with 200 only if its fetch, checkout and build
\* all succeeded.
C10_Ends ==
    /\ \A w \in Workers : []<>(pc[w] \in {"idle", "done"})
    /\ [][\A w \in Workers :
            (pc[w] # "idle" /\ pc'[w] = "idle") => pc[w] = "done"]_vars
    /\ [](\A w \in Workers :
            /\ pc[w] = "done" => IsOutcome(resp[w])
            /\ pc[w] # "done" => resp[w] = NoResp
            /\ (pc[w] = "done" /\ IsMain(data[w]) /\ Has(resp[w], "status")
                    /\ resp[w].status = 200)
                 => outs[w] = <<Ok, Ok, Ok>>)

C10_Witness ==
    \E w \in Workers :
        /\ Ended(w)
        /\ IsMain(data[w])
        /\ resp[w] = Response200
        /\ outs[w] = <<Ok, Ok, Ok>>

====
